---- MODULE Spec2Model ----
(***************************************************************************)
(* The GNS administrative-division pipeline of                             *)
(* process_all_admin_levels_simple.py ("simple") and                       *)
(* process_all_administrative_levels.py ("full"): one run of               *)
(* process_gns_administrative_data() followed by the __main__ block, and   *)
(* after it one run of split_data_by_country() of split_by_country.py.     *)
(* The processing script may be started a second time on the same files.   *)
(*                                                                         *)
(* A data frame is a sequence of rows, a row is a record of cells.  A cell *)
(* of an object column is a string, NaN being pandas' missing value; a     *)
(* numeric value that may be missing is a sequence of length 0 (NaN) or 1. *)
(* Strings are atoms; what the code does with their characters             *)
(* (startswith, upper, ordering) is computed on Chars(s).                  *)
(***************************************************************************)
EXTENDS Integers, Sequences, FiniteSets, TLC

VARIABLES
    script,                     \* which of the two scripts runs
    Country_Codes_csv,          \* input file: [exists, rows]
    Administrative_Regions_txt, \* input file: [exists, rows]
    pc,                         \* position in process_gns_administrative_data / __main__
    countries_df,
    admin_df,
    admin_filtered,
    admin_deduplicated,
    admin_coords,
    output_df,
    writer,                     \* sheets written to the open ExcelWriter, in order
    country_pivot,
    xlsx,                       \* the output file on disk: [exists, sheets]
    retval,                     \* what process_gns_administrative_data returned
    error,                      \* the exception the run caught: <<>> or <<type, step>>
    exit_code,                  \* the process' exit status
    split_pc,                   \* position in split_data_by_country
    split_df,                   \* df of split_data_by_country
    split_countries,            \* the countries the loop has still to visit
    Country_Exports,            \* the files of the directory: a set of [name, rows]
    split_exit_code,            \* exit status of split_by_country.py
    numpy_quicksort,            \* the frames numpy has sorted by Total: <<frame, order>>
    second_run,                 \* whether the script is started a second time
    first_xlsx                  \* the output file the first run left: <<>> or <<xlsx>>

mainVars == <<script, Country_Codes_csv, Administrative_Regions_txt, pc, countries_df,
              admin_df, admin_filtered, admin_deduplicated, admin_coords, output_df,
              writer, country_pivot, xlsx, retval, error, exit_code>>

splitVars == <<split_pc, split_df, split_countries, Country_Exports, split_exit_code>>

runVars == <<numpy_quicksort, second_run, first_xlsx>>

vars == <<mainVars, splitVars, runVars>>

-----------------------------------------------------------------------------
(* Bounds of the model *)

MaxRecords == 2

-----------------------------------------------------------------------------
(* Strings *)

NaN == "NaN"

\* The characters of the string literals the model uses.
Chars(s) ==
    CASE s = "ADM1"   -> <<"A", "D", "M", "1">>
      [] s = "ADM2"   -> <<"A", "D", "M", "2">>
      [] s = "ADM3"   -> <<"A", "D", "M", "3">>
      [] s = "ADM4"   -> <<"A", "D", "M", "4">>
      [] s = "ADMD"   -> <<"A", "D", "M", "D">>
      [] s = "ADM1H"  -> <<"A", "D", "M", "1", "H">>
      [] s = "ADM"    -> <<"A", "D", "M">>
      [] s = "PPL"    -> <<"P", "P", "L">>
      [] s = "Y"      -> <<"Y">>
      [] s = "y"      -> <<"y">>
      [] s = "1,2"    -> <<"1", ",", "2">>
      [] s = ""       -> <<>>
      [] s = "Chad"   -> <<"C", "h", "a", "d">>
      [] s = "Chad."  -> <<"C", "h", "a", "d", ".">>
      [] s = "France" -> <<"F", "r", "a", "n", "c", "e">>
      [] s = "Ain"    -> <<"A", "i", "n">>
      [] s = "Bas"    -> <<"B", "a", "s">>
      [] s = "CD"     -> <<"C", "D">>
      [] s = "FR"     -> <<"F", "R">>
      [] s = "ZZ"     -> <<"Z", "Z">>
      [] s = "TD"     -> <<"T", "D">>
      [] s = "AA"     -> <<"A", "A">>
      [] s = "AB"     -> <<"A", "B">>
      [] s = "AC"     -> <<"A", "C">>
      [] s = "AD"     -> <<"A", "D">>
      [] s = "AF"     -> <<"A", "F">>
      [] s = "AH"     -> <<"A", "H">>
      [] s = "AL"     -> <<"A", "L">>
      [] s = "AM"     -> <<"A", "M">>
      [] s = "AP"     -> <<"A", "P">>
      [] s = "AR"     -> <<"A", "R">>
      [] s = "AT"     -> <<"A", "T">>
      [] s = "AY"     -> <<"A", "Y">>
      [] s = "AZ"     -> <<"A", "Z">>
      [] s = "BA"     -> <<"B", "A">>
      [] s = "BB"     -> <<"B", "B">>
      [] s = "BC"     -> <<"B", "C">>
      [] s = "BD"     -> <<"B", "D">>
      [] s = "BF"     -> <<"B", "F">>
      [] s = "BH"     -> <<"B", "H">>
      [] s = "BL"     -> <<"B", "L">>
      [] s = "BM"     -> <<"B", "M">>
      [] s = "BP"     -> <<"B", "P">>
      [] s = "BR"     -> <<"B", "R">>
      [] s = "BT"     -> <<"B", "T">>
      [] s = "BY"     -> <<"B", "Y">>
      [] s = "BZ"     -> <<"B", "Z">>
      [] s = "CA"     -> <<"C", "A">>
      [] s = "CB"     -> <<"C", "B">>
      [] s = "CC"     -> <<"C", "C">>
      [] s = "CF"     -> <<"C", "F">>
      [] s = "CH"     -> <<"C", "H">>

\* str.upper on one character
UpperChar(c) ==
    CASE c = "y" -> "Y"
      [] c = "a" -> "A"
      [] c = "c" -> "C"
      [] c = "d" -> "D"
      [] c = "e" -> "E"
      [] c = "h" -> "H"
      [] c = "i" -> "I"
      [] c = "n" -> "N"
      [] c = "r" -> "R"
      [] c = "s" -> "S"
      [] OTHER   -> c

Upper(cs) == [i \in 1..Len(cs) |-> UpperChar(cs[i])]

\* str.startswith(prefix) on the characters
StartsWith(cs, prefix) ==
    /\ Len(prefix) <= Len(cs)
    /\ SubSeq(cs, 1, Len(prefix)) = prefix

\* str.startswith(tuple of prefixes, na=False) on a cell
StartsWithAny(cell, prefixes) ==
    /\ cell # NaN
    /\ \E p \in prefixes : StartsWith(Chars(cell), Chars(p))

-----------------------------------------------------------------------------
(* pandas helpers *)

notna(cell) == cell # NaN

\* pd.read_csv: the texts it reads as a missing value
NaValues ==
    {"", "#N/A", "#N/A N/A", "#NA", "-1.#IND", "-1.#QNAN", "-NaN", "-nan",
     "1.#IND", "1.#QNAN", "<NA>", "N/A", "NA", "NULL", "NaN", "None", "n/a",
     "nan", "null"}

ParseCell(text) == IF text \in NaValues THEN NaN ELSE text

\* The numbers the numeric texts of the model stand for.
NumericValue ==
    ("1" :> 1) @@ ("2" :> 2) @@ ("5" :> 5) @@ ("10" :> 10) @@ ("20" :> 20)
    @@ ("999" :> 999) @@ ("1000" :> 1000)

\* pd.to_numeric(cell, errors='coerce'): <<n>>, or <<>> for NaN
to_numeric(cell) ==
    IF cell \in DOMAIN NumericValue THEN <<NumericValue[cell]>> ELSE <<>>

\* Series.fillna(value) on a numeric value
fillna(x, value) == IF x = <<>> THEN value ELSE x[1]

\* dtype of a column read by read_csv: a column holding no text at all in a
\* non-empty file is float64, anything else in this model is object.
IsFloatColumn(df, col) ==
    /\ df # <<>>
    /\ \A i \in 1..Len(df) : df[i][col] = NaN

-----------------------------------------------------------------------------
(* Reading the inputs *)

AdminTextColumns ==
    {"desig_cd", "display", "lat_dd", "long_dd", "nt", "name_rank", "lang_cd",
     "cc_ft", "full_name", "generic"}

CountryColumns == {"Country_Code", "Short_Name", "Full_Name"}

\* pd.read_csv of Administrative_Regions.txt: ufi and uni are integer
\* columns; the frame has the columns of the file among those the scripts use
ParseAdminRow(line) ==
    [c \in (AdminTextColumns \cup {"ufi", "uni"}) \cap DOMAIN line |->
        IF c \in {"ufi", "uni"} THEN line[c] ELSE ParseCell(line[c])]

\* 'display' in admin_filtered.columns: the rows of a frame have the columns
\* of the file; a file without records is taken to have them all
HasColumn(df, col) == IF df = <<>> THEN TRUE ELSE col \in DOMAIN df[1]

\* read_csv(usecols=admin_columns) raises ValueError when the file lacks one
\* of the columns named   (full script only)
UsecolsRaises(s, rows) == s = "full" /\ ~HasColumn(rows, "display")

read_admin(rows) == [i \in 1..Len(rows) |-> ParseAdminRow(rows[i])]

ParseCountryRow(line) == [c \in CountryColumns |-> ParseCell(line[c])]

read_countries(rows) == [i \in 1..Len(rows) |-> ParseCountryRow(rows[i])]

-----------------------------------------------------------------------------
(* Step 3: level filter *)

AdmPrefixes == {"ADM1", "ADM2", "ADM3", "ADM4", "ADMD"}

\* admin_df['desig_cd'].str.startswith((...), na=False)
adm_mask(row) == StartsWithAny(row.desig_cd, AdmPrefixes)

\* The .str accessor raises AttributeError on a column that is not object.
StrAccessorRaises(df, col) == IsFloatColumn(df, col)

-----------------------------------------------------------------------------
(* Step 4: display filter *)

\* display.fillna('').str.upper() == 'Y'   (full script only)
display_mask_strict(row) ==
    Upper(Chars(IF notna(row.display) THEN row.display ELSE "")) = Chars("Y")

\* display.notna() & (display != '')
display_mask(row) == notna(row.display) /\ row.display # ""

\* fillna('') leaves an empty float64 column float64, and .str raises on it.
StrictDisplayRaises(file_df, filtered) ==
    /\ HasColumn(file_df, "display")
    /\ IsFloatColumn(file_df, "display")
    /\ filtered = <<>>

\* if 'display' in admin_filtered.columns: the filters of the script;
\* without the column every record is kept. file_df is the frame read, whose
\* columns are those of df.
DisplayFilter(s, file_df, df) ==
    IF ~HasColumn(file_df, "display") THEN df
    ELSE IF s = "full"
    THEN SelectSeq(SelectSeq(df, display_mask_strict), display_mask)
    ELSE SelectSeq(df, display_mask)

-----------------------------------------------------------------------------
(* Coordinate filter *)

\* the coordinate filter looking at the latitude alone
coord_mask_latitude(row) == to_numeric(row.lat_dd) # <<>>

\* to_numeric(lat_dd).notna() & to_numeric(long_dd).notna()
coord_mask(row) ==
    to_numeric(row.lat_dd) # <<>> /\ to_numeric(row.long_dd) # <<>>

-----------------------------------------------------------------------------
(* Priority scoring *)

\* .fillna(999) of nt_priority and of name_rank_num
MissingTypePriority == 999
MissingRank == 999

name_type_priority(nt) ==
    CASE nt = "N" -> 1
      [] nt = "C" -> 2
      [] nt = "D" -> 3
      [] nt = "V" -> 4
      [] OTHER    -> MissingTypePriority

name_rank_num(name_rank) == fillna(to_numeric(name_rank), MissingRank)

common_local_langs ==
    {"spa", "fra", "deu", "ita", "por", "rus", "ara", "zho", "jpn", "hin"}

lang_priority(s, lang_cd) ==
    IF s = "full"
    THEN IF lang_cd = "eng" THEN 1
         ELSE IF lang_cd \in common_local_langs THEN 2 ELSE 3
    ELSE IF lang_cd = "eng" THEN 1 ELSE 2

ScoreColumns == {"nt_priority", "name_rank_num", "lang_priority"}

Score(s, row) ==
    [c \in DOMAIN row \cup ScoreColumns |->
        CASE c = "nt_priority"   -> name_type_priority(row.nt)
          [] c = "name_rank_num" -> name_rank_num(row.name_rank)
          [] c = "lang_priority" -> lang_priority(s, row.lang_cd)
          [] OTHER               -> row[c]]

AddScores(s, df) == [i \in 1..Len(df) |-> Score(s, df[i])]

-----------------------------------------------------------------------------
(* Sorting *)

\* a sort that puts the later of two rows of equal keys first
SortByLaterFirst(df, before) ==
    LET n == Len(df)
        pos(i) == 1 + Cardinality({j \in 1..n :
                        \/ before[j, i]
                        \/ /\ ~before[i, j]
                           /\ j > i})
        placed == {<<pos(i), i>> : i \in 1..n}
    IN  [k \in 1..n |-> df[(CHOOSE p \in placed : p[1] = k)[2]]]

\* A stable sort, before[i, j] saying that row i sorts before row j: row i
\* goes after every row that is before it and after every earlier row that
\* is neither before nor after it.
SortBy(df, before) ==
    LET n == Len(df)
        pos(i) == 1 + Cardinality({j \in 1..n :
                        \/ before[j, i]
                        \/ /\ ~before[i, j]
                           /\ j < i})
        placed == {<<pos(i), i>> : i \in 1..n}
    IN  [k \in 1..n |-> df[(CHOOSE p \in placed : p[1] = k)[2]]]

\* the sort keys with name_rank_num ahead of nt_priority
QualityKeyRankFirst(row) ==
    <<row.ufi, row.name_rank_num, row.nt_priority, row.lang_priority>>

\* sort_values(['ufi', 'nt_priority', 'name_rank_num', 'lang_priority'])
QualityKey(row) == <<row.ufi, row.nt_priority, row.name_rank_num, row.lang_priority>>

RECURSIVE TupleLess(_, _)
TupleLess(a, b) ==
    /\ a # <<>>
    /\ \/ Head(a) < Head(b)
       \/ Head(a) = Head(b) /\ TupleLess(Tail(a), Tail(b))

QualityBefore(r1, r2) == TupleLess(QualityKey(r1), QualityKey(r2))

SortByQuality(df) ==
    SortBy(df, [i \in 1..Len(df), j \in 1..Len(df) |-> QualityBefore(df[i], df[j])])

-----------------------------------------------------------------------------
(* Deduplication: groupby('ufi').first().reset_index() *)

\* the numbers of S in ascending order: groupby sorts the group keys
SortedSeq(S) ==
    LET ranked == {<<1 + Cardinality({y \in S : y < x}), x>> : x \in S}
    IN  [k \in 1..Cardinality(S) |-> (CHOOSE p \in ranked : p[1] = k)[2]]

IntColumns == {"ufi", "uni"} \cup ScoreColumns

\* GroupBy.first(): per column, the first value of the group that is not null
First(group, c) ==
    IF c \in IntColumns THEN group[1][c]
    ELSE LET valid == {i \in 1..Len(group) : notna(group[i][c])}
         IN  IF valid = {} THEN NaN
             ELSE group[CHOOSE i \in valid : \A j \in valid : i <= j][c]

GroupFirst(df) ==
    LET keys == SortedSeq({df[i].ufi : i \in 1..Len(df)})
        Group(u) == SelectSeq(df, LAMBDA r : r.ufi = u)
    IN  [k \in 1..Len(keys) |->
            [c \in DOMAIN df[1] |->
                IF c = "ufi" THEN keys[k] ELSE First(Group(keys[k]), c)]]

-----------------------------------------------------------------------------
(* Coordinates and country information *)

WithCoordinates(row) ==
    [c \in DOMAIN row \cup {"latitude", "longitude"} |->
        CASE c = "latitude"  -> to_numeric(row.lat_dd)
          [] c = "longitude" -> to_numeric(row.long_dd)
          [] OTHER           -> row[c]]

CleanCoordinates(df) == [i \in 1..Len(df) |-> WithCoordinates(df[i])]

\* latitude.notna() & longitude.notna()   (full script only)
final_coord_mask(row) == row.latitude # <<>> /\ row.longitude # <<>>

Joined(row, country) ==
    [c \in DOMAIN row \cup CountryColumns |->
        IF c \in CountryColumns THEN country[c] ELSE row[c]]

NoCountry == [c \in CountryColumns |-> NaN]

\* the rows a left row yields in merge(how='left'): one per matching row of
\* the right frame, in its order, or one with missing country columns
MergeRow(row, countries) ==
    LET matches == SelectSeq(countries, LAMBDA k : k.Country_Code = row.cc_ft)
    IN  IF matches = <<>> THEN <<Joined(row, NoCountry)>>
        ELSE [m \in 1..Len(matches) |-> Joined(row, matches[m])]

\* merge() compares the dtypes of the two key columns unless just one of the
\* frames is empty, and raises ValueError for a float64 key (a column without
\* a text in a non-empty file) against an object key: the object key of the
\* reference is empty or holds a text, and that of the left frame holds a
\* text or the None that groupby('ufi').first() puts where a group has no
\* value, neither of which goes with numbers.
MergeRaises(file_df, left, countries) ==
    /\ IsFloatColumn(file_df, "cc_ft") # IsFloatColumn(countries, "Country_Code")
    /\ (left = <<>>) = (countries = <<>>)

\* the rows of the left frame in their order, each with its matches
RECURSIVE Merge(_, _)
Merge(df, countries) ==
    IF df = <<>> THEN <<>>
    ELSE IF Len(df) = 1 THEN MergeRow(df[1], countries)
    ELSE LET half == Len(df) \div 2
         IN  Merge(SubSeq(df, 1, half), countries)
                 \o Merge(SubSeq(df, half + 1, Len(df)), countries)

-----------------------------------------------------------------------------
(* The output frame *)

OutputColumns ==
    {"Country_Code", "Country_Name", "Country_Full_Name", "Administrative_Level",
     "Administrative_Name", "latitude", "longitude", "Unique_Feature_ID",
     "Unique_Name_ID", "Name_Type", "Name_Rank", "Language_Code", "Generic_Term"}

\* the column of the merged frame an output column is taken from
SourceColumn(c) ==
    CASE c = "Country_Code"         -> "Country_Code"
      [] c = "Country_Name"         -> "Short_Name"
      [] c = "Country_Full_Name"    -> "Full_Name"
      [] c = "Administrative_Level" -> "desig_cd"
      [] c = "Administrative_Name"  -> "full_name"
      [] c = "latitude"             -> "latitude"
      [] c = "longitude"            -> "longitude"
      [] c = "Unique_Feature_ID"    -> "ufi"
      [] c = "Unique_Name_ID"       -> "uni"
      [] c = "Name_Type"            -> "nt"
      [] c = "Name_Rank"            -> "name_rank"
      [] c = "Language_Code"        -> "lang_cd"
      [] c = "Generic_Term"         -> "generic"

OutputRow(row) == [c \in OutputColumns |-> row[SourceColumn(c)]]

\* code points of the characters of the model's strings
Ord(ch) ==
    CASE ch = " " -> 32
      [] ch = "," -> 44
      [] ch = "." -> 46
      [] ch = "1" -> 49
      [] ch = "2" -> 50
      [] ch = "3" -> 51
      [] ch = "4" -> 52
      [] ch = "A" -> 65
      [] ch = "B" -> 66
      [] ch = "C" -> 67
      [] ch = "D" -> 68
      [] ch = "F" -> 70
      [] ch = "H" -> 72
      [] ch = "L" -> 76
      [] ch = "M" -> 77
      [] ch = "P" -> 80
      [] ch = "R" -> 82
      [] ch = "T" -> 84
      [] ch = "Y" -> 89
      [] ch = "Z" -> 90
      [] ch = "a" -> 97
      [] ch = "c" -> 99
      [] ch = "d" -> 100
      [] ch = "e" -> 101
      [] ch = "h" -> 104
      [] ch = "i" -> 105
      [] ch = "n" -> 110
      [] ch = "r" -> 114
      [] ch = "s" -> 115
      [] ch = "y" -> 121

\* Python's str < str on the characters
RECURSIVE CharsLess(_, _)
CharsLess(a, b) ==
    IF a = <<>> THEN b # <<>>
    ELSE IF b = <<>> THEN FALSE
    ELSE IF Ord(Head(a)) # Ord(Head(b)) THEN Ord(Head(a)) < Ord(Head(b))
    ELSE CharsLess(Tail(a), Tail(b))

\* order of two cells of a sort key with the missing values first
CellLessMissingFirst(a, b) ==
    IF b = NaN THEN FALSE
    ELSE IF a = NaN THEN TRUE
    ELSE CharsLess(Chars(a), Chars(b))

\* order of two cells of a sort key, missing values last
CellLess(a, b) ==
    IF a = NaN THEN FALSE
    ELSE IF b = NaN THEN TRUE
    ELSE CharsLess(Chars(a), Chars(b))

RECURSIVE CellsLess(_, _)
CellsLess(a, b) ==
    /\ a # <<>>
    /\ \/ CellLess(Head(a), Head(b))
       \/ Head(a) = Head(b) /\ CellsLess(Tail(a), Tail(b))

\* sort_values(['Country_Name', 'Administrative_Level', 'Administrative_Name'])
PrimaryKey(row) ==
    <<row.Country_Name, row.Administrative_Level, row.Administrative_Name>>

PrimaryBefore(r1, r2) == CellsLess(PrimaryKey(r1), PrimaryKey(r2))

CreateOutput(merged) ==
    LET out == [i \in 1..Len(merged) |-> OutputRow(merged[i])]
    IN  SortBy(out, [i \in 1..Len(out), j \in 1..Len(out) |->
                        PrimaryBefore(out[i], out[j])])

-----------------------------------------------------------------------------
(* The sheets *)

Levels == <<"ADM1", "ADM2", "ADM3", "ADM4", "ADMD">>

Sheet(name, rows) == [name |-> name, rows |-> rows]

\* f'{level}_Divisions'
LevelSheetName(level) ==
    CASE level = "ADM1" -> "ADM1_Divisions"
      [] level = "ADM2" -> "ADM2_Divisions"
      [] level = "ADM3" -> "ADM3_Divisions"
      [] level = "ADM4" -> "ADM4_Divisions"
      [] level = "ADMD" -> "ADMD_Divisions"
      [] level = "ADM1H" -> "ADM1H_Divisions"

level_data(out, level) ==
    SelectSeq(out, LAMBDA r : r.Administrative_Level = level)

RECURSIVE LevelSheets(_, _)
LevelSheets(out, levels) ==
    IF levels = <<>> THEN <<>>
    ELSE (IF level_data(out, Head(levels)) # <<>>
          THEN <<Sheet(LevelSheetName(Head(levels)), level_data(out, Head(levels)))>>
          ELSE <<>>)
         \o LevelSheets(out, Tail(levels))

\* groupby([Country_Code, Country_Name, Administrative_Level]) leaves out the
\* rows with a missing key
Counted(out) ==
    SelectSeq(out, LAMBDA r : /\ notna(r.Country_Code)
                              /\ notna(r.Country_Name)
                              /\ notna(r.Administrative_Level))

RECURSIVE SetToSeq(_)
SetToSeq(S) ==
    IF S = {} THEN <<>>
    ELSE LET x == CHOOSE x \in S : TRUE IN <<x>> \o SetToSeq(S \ {x})

\* a sum that takes one of the columns only
SumOfOne(f, S) == IF S = {} THEN 0 ELSE f[CHOOSE x \in S : TRUE]

RECURSIVE Sum(_, _)
Sum(f, S) ==
    IF S = {} THEN 0
    ELSE LET x == CHOOSE x \in S : TRUE IN f[x] + Sum(f, S \ {x})

\* country_summary.pivot(...).fillna(0).astype(int) with the Total column,
\* its rows in index order (Country_Code, Country_Name)
Pivot(out) ==
    LET rows    == Counted(out)
        n       == Len(rows)
        index   == {<<rows[i].Country_Code, rows[i].Country_Name>> : i \in 1..n}
        columns == {rows[i].Administrative_Level : i \in 1..n}
        Count(k, l) == Cardinality({i \in 1..n :
                           /\ rows[i].Country_Code = k[1]
                           /\ rows[i].Country_Name = k[2]
                           /\ rows[i].Administrative_Level = l})
        PivotLine(k) ==
            LET counts == [l \in columns |-> Count(k, l)]
                   IN  [Country_Code |-> k[1], Country_Name |-> k[2],
                        counts |-> counts, Total |-> Sum(counts, columns)]
        lines   == SetToSeq({PivotLine(k) : k \in index})
        Key(a)  == <<a.Country_Code, a.Country_Name>>
    IN  SortBy(lines, [i \in 1..Len(lines), j \in 1..Len(lines) |->
                          CellsLess(Key(lines[i]), Key(lines[j]))])

\* sort_values('Total', ascending=False): the default sort kind, quicksort,
\* is not stable, and pandas promises no order for rows of equal Total.
\* Orders(pivot, S) is the set of the orders of the rows of indices S that
\* the call may return: one of the rows of the largest Total, then an order
\* of the others.
RECURSIVE Orders(_, _)
Orders(pivot, S) ==
    IF S = {} THEN {<<>>}
    ELSE LET largest == {i \in S : \A j \in S : pivot[i].Total >= pivot[j].Total}
         IN  UNION {{<<pivot[i]>> \o rest : rest \in Orders(pivot, S \ {i})}
                        : i \in largest}

SortedByTotal(pivot) == Orders(pivot, 1..Len(pivot))

\* Which of these orders comes out is fixed by the numpy the script runs on:
\* quicksort reads no clock and draws no random number, the same frame is
\* sorted the same way every time. known holds the frames this numpy has
\* sorted, each with the order it gave: a frame sorted before comes out in
\* that order, another in any of its orders.
Quicksorted(pivot, known) ==
    IF \E p \in known : p[1] = pivot
    THEN {p[2] : p \in {q \in known : q[1] = pivot}}
    ELSE SortedByTotal(pivot)

TopN == 30

\* a head that takes every row
head_all(df, n) == df

\* DataFrame.head(n)
head(df, n) == SubSeq(df, 1, IF Len(df) < n THEN Len(df) ELSE n)

output_file == "Complete_Administrative_Divisions_with_Coordinates.xlsx"

-----------------------------------------------------------------------------
(* The run *)

NotReturned == "<running>"
None == "None"

Absent == [exists |-> FALSE, rows |-> <<>>]
File(rows) == [exists |-> TRUE, rows |-> rows]

\* the except clauses of process_gns_administrative_data: print, return None
Raise(type) ==
    /\ retval' = None
    /\ error' = <<type, pc>>
    /\ pc' = "main"

ReadCountryCodes ==
    /\ pc = "read_countries"
    /\ Country_Codes_csv.exists
    /\ countries_df' = read_countries(Country_Codes_csv.rows)
    /\ pc' = "read_admin"
    /\ UNCHANGED splitVars
    /\ UNCHANGED runVars
    /\ UNCHANGED <<script, Country_Codes_csv, Administrative_Regions_txt, admin_df,
                   admin_filtered, admin_deduplicated, admin_coords, output_df,
                   writer, country_pivot, xlsx, retval, exit_code,
                   error>>

CountryCodesNotFound ==
    /\ pc = "read_countries"
    /\ ~Country_Codes_csv.exists
    /\ Raise("FileNotFoundError")
    /\ UNCHANGED splitVars
    /\ UNCHANGED runVars
    /\ UNCHANGED <<script, Country_Codes_csv, Administrative_Regions_txt,
                   countries_df, admin_df, admin_filtered, admin_deduplicated,
                   admin_coords, output_df, writer, country_pivot, xlsx, exit_code>>

ReadAdministrativeRegions ==
    /\ pc = "read_admin"
    /\ Administrative_Regions_txt.exists
    /\ ~UsecolsRaises(script, Administrative_Regions_txt.rows)
    /\ admin_df' = read_admin(Administrative_Regions_txt.rows)
    /\ pc' = "level_filter"
    /\ UNCHANGED splitVars
    /\ UNCHANGED runVars
    /\ UNCHANGED <<script, Country_Codes_csv, Administrative_Regions_txt,
                   countries_df, admin_filtered, admin_deduplicated, admin_coords,
                   output_df, writer, country_pivot, xlsx, retval, exit_code,
                   error>>

\* except Exception: the file is there and lacks a column of usecols
ReadAdministrativeRegionsRaises ==
    /\ pc = "read_admin"
    /\ Administrative_Regions_txt.exists
    /\ UsecolsRaises(script, Administrative_Regions_txt.rows)
    /\ Raise("ValueError")
    /\ UNCHANGED splitVars
    /\ UNCHANGED runVars
    /\ UNCHANGED <<script, Country_Codes_csv, Administrative_Regions_txt,
                   countries_df, admin_df, admin_filtered, admin_deduplicated,
                   admin_coords, output_df, writer, country_pivot, xlsx, exit_code>>

\* a missing Administrative_Regions.txt read as a file without records
AdministrativeRegionsReadAsEmpty ==
    /\ pc = "read_admin"
    /\ ~Administrative_Regions_txt.exists
    /\ admin_df' = <<>>
    /\ pc' = "level_filter"
    /\ UNCHANGED splitVars
    /\ UNCHANGED runVars
    /\ UNCHANGED <<script, Country_Codes_csv, Administrative_Regions_txt,
                   countries_df, admin_filtered, admin_deduplicated, admin_coords,
                   output_df, writer, country_pivot, xlsx, retval, exit_code,
                   error>>

AdministrativeRegionsNotFound ==
    /\ pc = "read_admin"
    /\ ~Administrative_Regions_txt.exists
    /\ Raise("FileNotFoundError")
    /\ UNCHANGED splitVars
    /\ UNCHANGED runVars
    /\ UNCHANGED <<script, Country_Codes_csv, Administrative_Regions_txt,
                   countries_df, admin_df, admin_filtered, admin_deduplicated,
                   admin_coords, output_df, writer, country_pivot, xlsx, exit_code>>

LevelFilter ==
    /\ pc = "level_filter"
    /\ ~StrAccessorRaises(admin_df, "desig_cd")
    /\ admin_filtered' = SelectSeq(admin_df, adm_mask)
    /\ pc' = "display_filter"
    /\ UNCHANGED splitVars
    /\ UNCHANGED runVars
    /\ UNCHANGED <<script, Country_Codes_csv, Administrative_Regions_txt,
                   countries_df, admin_df, admin_deduplicated, admin_coords,
                   output_df, writer, country_pivot, xlsx, retval, exit_code,
                   error>>

LevelFilterRaises ==
    /\ pc = "level_filter"
    /\ StrAccessorRaises(admin_df, "desig_cd")
    /\ Raise("AttributeError")
    /\ UNCHANGED splitVars
    /\ UNCHANGED runVars
    /\ UNCHANGED <<script, Country_Codes_csv, Administrative_Regions_txt,
                   countries_df, admin_df, admin_filtered, admin_deduplicated,
                   admin_coords, output_df, writer, country_pivot, xlsx, exit_code>>

DisplayFilterStep ==
    /\ pc = "display_filter"
    /\ ~(script = "full" /\ StrictDisplayRaises(admin_df, admin_filtered))
    /\ admin_filtered' = DisplayFilter(script, admin_df, admin_filtered)
    /\ pc' = IF script = "full" THEN "score" ELSE "coord_filter"
    /\ UNCHANGED splitVars
    /\ UNCHANGED runVars
    /\ UNCHANGED <<script, Country_Codes_csv, Administrative_Regions_txt,
                   countries_df, admin_df, admin_deduplicated, admin_coords,
                   output_df, writer, country_pivot, xlsx, retval, exit_code,
                   error>>

DisplayFilterRaises ==
    /\ pc = "display_filter"
    /\ script = "full"
    /\ StrictDisplayRaises(admin_df, admin_filtered)
    /\ Raise("AttributeError")
    /\ UNCHANGED splitVars
    /\ UNCHANGED runVars
    /\ UNCHANGED <<script, Country_Codes_csv, Administrative_Regions_txt,
                   countries_df, admin_df, admin_filtered, admin_deduplicated,
                   admin_coords, output_df, writer, country_pivot, xlsx, exit_code>>

CoordinateFilter ==
    /\ pc = "coord_filter"
    /\ admin_filtered' = SelectSeq(admin_filtered, coord_mask)
    /\ pc' = IF script = "full" THEN "sort" ELSE "score"
    /\ UNCHANGED splitVars
    /\ UNCHANGED runVars
    /\ UNCHANGED <<script, Country_Codes_csv, Administrative_Regions_txt,
                   countries_df, admin_df, admin_deduplicated, admin_coords,
                   output_df, writer, country_pivot, xlsx, retval, exit_code,
                   error>>

PriorityScoring ==
    /\ pc = "score"
    /\ admin_filtered' = AddScores(script, admin_filtered)
    /\ pc' = IF script = "full" THEN "coord_filter" ELSE "sort"
    /\ UNCHANGED splitVars
    /\ UNCHANGED runVars
    /\ UNCHANGED <<script, Country_Codes_csv, Administrative_Regions_txt,
                   countries_df, admin_df, admin_deduplicated, admin_coords,
                   output_df, writer, country_pivot, xlsx, retval, exit_code,
                   error>>

SortValues ==
    /\ pc = "sort"
    /\ admin_filtered' = SortByQuality(admin_filtered)
    /\ pc' = "dedupe"
    /\ UNCHANGED splitVars
    /\ UNCHANGED runVars
    /\ UNCHANGED <<script, Country_Codes_csv, Administrative_Regions_txt,
                   countries_df, admin_df, admin_deduplicated, admin_coords,
                   output_df, writer, country_pivot, xlsx, retval, exit_code,
                   error>>

Deduplicate ==
    /\ pc = "dedupe"
    /\ admin_deduplicated' = GroupFirst(admin_filtered)
    /\ pc' = "coordinates"
    /\ UNCHANGED splitVars
    /\ UNCHANGED runVars
    /\ UNCHANGED <<script, Country_Codes_csv, Administrative_Regions_txt,
                   countries_df, admin_df, admin_filtered, admin_coords,
                   output_df, writer, country_pivot, xlsx, retval, exit_code,
                   error>>

\* the simple script merges admin_deduplicated itself; the full script first
\* takes the rows whose coordinates are numbers
ProcessCoordinates ==
    /\ pc = "coordinates"
    /\ admin_deduplicated' = CleanCoordinates(admin_deduplicated)
    /\ admin_coords' = IF script = "full"
                       THEN SelectSeq(admin_deduplicated', final_coord_mask)
                       ELSE admin_deduplicated'
    /\ pc' = "merge"
    /\ UNCHANGED splitVars
    /\ UNCHANGED runVars
    /\ UNCHANGED <<script, Country_Codes_csv, Administrative_Regions_txt,
                   countries_df, admin_df, admin_filtered, output_df, writer,
                   country_pivot, xlsx, retval, exit_code,
                   error>>

MergeCountries ==
    /\ pc = "merge"
    /\ ~MergeRaises(admin_df, admin_coords, countries_df)
    /\ admin_coords' = Merge(admin_coords, countries_df)
    /\ pc' = "output"
    /\ UNCHANGED splitVars
    /\ UNCHANGED runVars
    /\ UNCHANGED <<script, Country_Codes_csv, Administrative_Regions_txt,
                   countries_df, admin_df, admin_filtered, admin_deduplicated,
                   output_df, writer, country_pivot, xlsx, retval, exit_code,
                   error>>

MergeCountriesRaises ==
    /\ pc = "merge"
    /\ MergeRaises(admin_df, admin_coords, countries_df)
    /\ Raise("ValueError")
    /\ UNCHANGED splitVars
    /\ UNCHANGED runVars
    /\ UNCHANGED <<script, Country_Codes_csv, Administrative_Regions_txt,
                   countries_df, admin_df, admin_filtered, admin_deduplicated,
                   admin_coords, output_df, writer, country_pivot, xlsx, exit_code>>

CreateOutputFrame ==
    /\ pc = "output"
    /\ output_df' = CreateOutput(admin_coords)
    /\ pc' = "open_writer"
    /\ UNCHANGED splitVars
    /\ UNCHANGED runVars
    /\ UNCHANGED <<script, Country_Codes_csv, Administrative_Regions_txt,
                   countries_df, admin_df, admin_filtered, admin_deduplicated,
                   admin_coords, writer, country_pivot, xlsx, retval, exit_code,
                   error>>

\* pd.ExcelWriter(output_file) opens the file for writing: it exists, empty
OpenWriter ==
    /\ pc = "open_writer"
    /\ writer' = <<>>
    /\ xlsx' = [exists |-> TRUE, sheets |-> <<>>]
    /\ pc' = "write_all"
    /\ UNCHANGED splitVars
    /\ UNCHANGED runVars
    /\ UNCHANGED <<script, Country_Codes_csv, Administrative_Regions_txt,
                   countries_df, admin_df, admin_filtered, admin_deduplicated,
                   admin_coords, output_df, country_pivot, retval, exit_code,
                   error>>

WriteAllDivisions ==
    /\ pc = "write_all"
    /\ writer' = Append(writer, Sheet("All_Admin_Divisions", output_df))
    /\ pc' = "write_levels"
    /\ UNCHANGED splitVars
    /\ UNCHANGED runVars
    /\ UNCHANGED <<script, Country_Codes_csv, Administrative_Regions_txt,
                   countries_df, admin_df, admin_filtered, admin_deduplicated,
                   admin_coords, output_df, country_pivot, xlsx, retval, exit_code,
                   error>>

WriteLevelSheets ==
    /\ pc = "write_levels"
    /\ writer' = writer \o LevelSheets(output_df, Levels)
    /\ pc' = "write_summary"
    /\ UNCHANGED splitVars
    /\ UNCHANGED runVars
    /\ UNCHANGED <<script, Country_Codes_csv, Administrative_Regions_txt,
                   countries_df, admin_df, admin_filtered, admin_deduplicated,
                   admin_coords, output_df, country_pivot, xlsx, retval, exit_code,
                   error>>

\* a sort that may order rows of equal Total differently at every call
WriteCountrySummaryAnyOrder ==
    /\ pc = "write_summary"
    /\ \E sorted \in SortedByTotal(Pivot(output_df)) :
          /\ country_pivot' = sorted
          /\ writer' = Append(writer, Sheet("Country_Summary", sorted))
    /\ pc' = "write_top"
    /\ UNCHANGED splitVars
    /\ UNCHANGED runVars
    /\ UNCHANGED <<script, Country_Codes_csv, Administrative_Regions_txt,
                   countries_df, admin_df, admin_filtered, admin_deduplicated,
                   admin_coords, output_df, xlsx, retval, exit_code,
                   error>>

WriteCountrySummary ==
    /\ pc = "write_summary"
    /\ LET pivot == Pivot(output_df)
       IN  \E sorted \in Quicksorted(pivot, numpy_quicksort) :
              /\ country_pivot' = sorted
              /\ writer' = Append(writer, Sheet("Country_Summary", sorted))
              /\ numpy_quicksort' = numpy_quicksort \cup {<<pivot, sorted>>}
    /\ pc' = "write_top"
    /\ UNCHANGED splitVars
    /\ UNCHANGED <<second_run, first_xlsx>>
    /\ UNCHANGED <<script, Country_Codes_csv, Administrative_Regions_txt,
                   countries_df, admin_df, admin_filtered, admin_deduplicated,
                   admin_coords, output_df, xlsx, retval, exit_code,
                   error>>

WriteTopCountries ==
    /\ pc = "write_top"
    /\ writer' = Append(writer, Sheet("Top_30_Countries", head(country_pivot, TopN)))
    /\ pc' = "close_writer"
    /\ UNCHANGED splitVars
    /\ UNCHANGED runVars
    /\ UNCHANGED <<script, Country_Codes_csv, Administrative_Regions_txt,
                   countries_df, admin_df, admin_filtered, admin_deduplicated,
                   admin_coords, output_df, country_pivot, xlsx, retval, exit_code,
                   error>>

\* leaving the with block saves the workbook
CloseWriter ==
    /\ pc = "close_writer"
    /\ xlsx' = [exists |-> TRUE, sheets |-> writer]
    /\ pc' = "report"
    /\ UNCHANGED splitVars
    /\ UNCHANGED runVars
    /\ UNCHANGED <<script, Country_Codes_csv, Administrative_Regions_txt,
                   countries_df, admin_df, admin_filtered, admin_deduplicated,
                   admin_coords, output_df, writer, country_pivot, retval, exit_code,
                   error>>

\* (len(admin_coords) / len(admin_filtered)) * 100   (full script only)
CoverageRaises(s, filtered) == s = "full" /\ Len(filtered) = 0

Report ==
    /\ pc = "report"
    /\ ~CoverageRaises(script, admin_filtered)
    /\ retval' = output_file
    /\ pc' = "main"
    /\ UNCHANGED splitVars
    /\ UNCHANGED runVars
    /\ UNCHANGED <<script, Country_Codes_csv, Administrative_Regions_txt,
                   countries_df, admin_df, admin_filtered, admin_deduplicated,
                   admin_coords, output_df, writer, country_pivot, xlsx, exit_code,
                   error>>

ReportRaises ==
    /\ pc = "report"
    /\ CoverageRaises(script, admin_filtered)
    /\ Raise("ZeroDivisionError")
    /\ UNCHANGED splitVars
    /\ UNCHANGED runVars
    /\ UNCHANGED <<script, Country_Codes_csv, Administrative_Regions_txt,
                   countries_df, admin_df, admin_filtered, admin_deduplicated,
                   admin_coords, output_df, writer, country_pivot, xlsx, exit_code>>

\* if output_file: ... else: sys.exit(1)
Main ==
    /\ pc = "main"
    /\ exit_code' = IF retval = None THEN <<1>> ELSE <<0>>
    /\ pc' = "exit"
    /\ UNCHANGED splitVars
    /\ UNCHANGED runVars
    /\ UNCHANGED <<script, Country_Codes_csv, Administrative_Regions_txt,
                   countries_df, admin_df, admin_filtered, admin_deduplicated,
                   admin_coords, output_df, writer, country_pivot, xlsx, retval,
                   error>>

\* The script is started a second time: a new process,
\* which finds the input files and the workbook as the first run left them.
\* The second run is started before split_by_country.py.
RunAgain ==
    /\ pc = "exit"
    /\ second_run
    /\ first_xlsx = <<>>
    /\ split_pc = "read_excel"
    /\ first_xlsx' = <<xlsx>>
    /\ pc' = "read_countries"
    /\ countries_df' = <<>>
    /\ admin_df' = <<>>
    /\ admin_filtered' = <<>>
    /\ admin_deduplicated' = <<>>
    /\ admin_coords' = <<>>
    /\ output_df' = <<>>
    /\ writer' = <<>>
    /\ country_pivot' = <<>>
    /\ retval' = NotReturned
    /\ error' = <<>>
    /\ exit_code' = <<>>
    /\ UNCHANGED splitVars
    /\ UNCHANGED <<script, Country_Codes_csv, Administrative_Regions_txt, xlsx,
                   numpy_quicksort, second_run>>

-----------------------------------------------------------------------------
(* split_by_country.py, run after the processing script has ended *)

\* the string literals of the model
Strings ==
    {"ADM1", "ADM2", "ADM3", "ADM4", "ADMD", "ADM1H", "ADM", "PPL", "Y", "y",
     "1,2", "", "Chad", "Chad.", "France", "Ain", "Bas", "CD", "FR", "ZZ", "TD",
     "AA", "AB", "AC", "AD", "AF", "AH", "AL", "AM", "AP", "AR", "AT", "AY",
     "AZ", "BA", "BB", "BC", "BD", "BF", "BH", "BL", "BM", "BP", "BR", "BT",
     "BY", "BZ", "CA", "CB", "CC", "CF", "CH"}

\* the string of these characters
StringOf(cs) == CHOOSE str \in Strings : Chars(str) = cs

\* c.isalpha() or c.isdigit() or c.isspace()
IsFileNameChar(ch) ==
    \/ Ord(ch) \in 65..90 \/ Ord(ch) \in 97..122
    \/ Ord(ch) \in 48..57
    \/ Ord(ch) = 32

\* str.rstrip()
RECURSIVE rstrip(_)
rstrip(cs) ==
    IF cs # <<>> /\ Ord(cs[Len(cs)]) = 32
    THEN rstrip(SubSeq(cs, 1, Len(cs) - 1))
    ELSE cs

\* "".join([c for c in country if ...]).rstrip()
safe_filename(country) ==
    StringOf(rstrip(SelectSeq(Chars(country), IsFileNameChar)))

\* Series.unique(): the values in the order of their first appearance
unique(col) ==
    LET firsts == SelectSeq([i \in 1..Len(col) |-> i],
                            LAMBDA i : \A j \in 1..(i - 1) : col[j] # col[i])
    IN  [k \in 1..Len(firsts) |-> col[firsts[k]]]

\* pd.read_excel(input_file): the first sheet of the workbook
SplitReadExcel ==
    /\ pc = "exit"
    /\ split_pc = "read_excel"
    /\ xlsx.exists
    /\ split_df' = xlsx.sheets[1].rows
    /\ split_countries' = unique([i \in 1..Len(split_df') |-> split_df'[i].Country_Name])
    /\ split_pc' = "loop"
    /\ UNCHANGED <<Country_Exports, split_exit_code>>
    /\ UNCHANGED mainVars
    /\ UNCHANGED runVars

\* except FileNotFoundError: sys.exit(1)
SplitInputNotFound ==
    /\ pc = "exit"
    /\ split_pc = "read_excel"
    /\ ~xlsx.exists
    /\ split_exit_code' = <<1>>
    /\ split_pc' = "exit"
    /\ UNCHANGED <<split_df, split_countries, Country_Exports>>
    /\ UNCHANGED mainVars
    /\ UNCHANGED runVars

\* if pd.isna(country): continue
SplitSkipMissing ==
    /\ split_pc = "loop"
    /\ split_countries # <<>>
    /\ Head(split_countries) = NaN
    /\ split_countries' = Tail(split_countries)
    /\ UNCHANGED <<split_pc, split_df, Country_Exports, split_exit_code>>
    /\ UNCHANGED mainVars
    /\ UNCHANGED runVars

\* country_df.to_excel(output_dir / f"{safe_filename}.xlsx"): the file is
\* created, or replaced when it exists
SplitExportCountry ==
    /\ split_pc = "loop"
    /\ split_countries # <<>>
    /\ Head(split_countries) # NaN
    /\ LET country    == Head(split_countries)
           country_df == SelectSeq(split_df, LAMBDA r : r.Country_Name = country)
           name       == safe_filename(country)
       IN  Country_Exports' = {f \in Country_Exports : f.name # name}
                              \cup {[name |-> name, rows |-> country_df]}
    /\ split_countries' = Tail(split_countries)
    /\ UNCHANGED <<split_pc, split_df, split_exit_code>>
    /\ UNCHANGED mainVars
    /\ UNCHANGED runVars

SplitFinished ==
    /\ split_pc = "loop"
    /\ split_countries = <<>>
    /\ split_exit_code' = <<0>>
    /\ split_pc' = "exit"
    /\ UNCHANGED <<split_df, split_countries, Country_Exports>>
    /\ UNCHANGED mainVars
    /\ UNCHANGED runVars

Next ==
    \/ ReadCountryCodes
    \/ CountryCodesNotFound
    \/ ReadAdministrativeRegions
    \/ ReadAdministrativeRegionsRaises
    \/ AdministrativeRegionsNotFound
    \/ LevelFilter
    \/ LevelFilterRaises
    \/ DisplayFilterStep
    \/ DisplayFilterRaises
    \/ CoordinateFilter
    \/ PriorityScoring
    \/ SortValues
    \/ Deduplicate
    \/ ProcessCoordinates
    \/ MergeCountries
    \/ MergeCountriesRaises
    \/ CreateOutputFrame
    \/ OpenWriter
    \/ WriteAllDivisions
    \/ WriteLevelSheets
    \/ WriteCountrySummary
    \/ WriteTopCountries
    \/ CloseWriter
    \/ Report
    \/ ReportRaises
    \/ Main
    \/ RunAgain
    \/ SplitReadExcel
    \/ SplitInputNotFound
    \/ SplitSkipMissing
    \/ SplitExportCountry
    \/ SplitFinished

-----------------------------------------------------------------------------
(* Inputs *)

France == [Country_Code |-> "FR", Short_Name |-> "France", Full_Name |-> "French Republic"]
Chad   == [Country_Code |-> "CD", Short_Name |-> "Chad", Full_Name |-> "Republic of Chad"]

\* a line of Administrative_Regions.txt; the lines of a file get uni 1, 2, ...
Line(ufi, desig_cd, display, lat_dd, long_dd, nt, name_rank, lang_cd, cc_ft, full_name, generic) ==
    [ufi |-> ufi, desig_cd |-> desig_cd, display |-> display, lat_dd |-> lat_dd,
     long_dd |-> long_dd, nt |-> nt, name_rank |-> name_rank, lang_cd |-> lang_cd,
     cc_ft |-> cc_ft, full_name |-> full_name, generic |-> generic]

Numbered(lines) ==
    [i \in 1..Len(lines) |->
        [c \in DOMAIN lines[i] \cup {"uni"} |-> IF c = "uni" THEN i ELSE lines[i][c]]]

AdminFiles(pool) ==
    {Absent} \cup
    {File(Numbered(lines)) : lines \in UNION {[1..n -> pool] : n \in 0..MaxRecords}}

CountryFiles(tables) == {Absent} \cup {File(t) : t \in tables}

\* the start of a first run: the input files, a numpy that has sorted
\* nothing yet, and whether the script will be started again
InitRun(adminFiles, countryFiles, again) ==
    /\ script \in {"simple", "full"}
    /\ Country_Codes_csv \in countryFiles
    /\ Administrative_Regions_txt \in adminFiles
    /\ pc = "read_countries"
    /\ countries_df = <<>>
    /\ admin_df = <<>>
    /\ admin_filtered = <<>>
    /\ admin_deduplicated = <<>>
    /\ admin_coords = <<>>
    /\ output_df = <<>>
    /\ writer = <<>>
    /\ country_pivot = <<>>
    /\ xlsx = [exists |-> FALSE, sheets |-> <<>>]
    /\ retval = NotReturned
    /\ error = <<>>
    /\ exit_code = <<>>
    /\ split_pc = "read_excel"
    /\ split_df = <<>>
    /\ split_countries = <<>>
    /\ Country_Exports = {}
    /\ split_exit_code = <<>>
    /\ numpy_quicksort = {}
    /\ second_run \in again
    /\ first_xlsx = <<>>

\* a line of a file that has no display column
WithoutDisplay(line) == [c \in DOMAIN line \ {"display"} |-> line[c]]

\* files without a display column, of records that have all the rest
FilesWithoutDisplay ==
    LET pool == {WithoutDisplay(Line(1, "ADM1", "", "10", "20", "N", "1", "eng", "FR", "Ain", "")),
                 WithoutDisplay(Line(2, "ADM1", "", "10", "20", "N", "1", "eng", "FR", "Bas", ""))}
    IN  {File(Numbered(lines)) : lines \in UNION {[1..n -> pool] : n \in 1..MaxRecords}}

\* the script started a second time after a run that found an input missing
InitAgain == InitRun({Absent}, CountryFiles({<<France>>}), {TRUE})

\* one run on the given files or on a file without a display column, or two
\* runs without the records
InitFiles(adminFiles, countryFiles) ==
    \/ InitRun(adminFiles \cup FilesWithoutDisplay, countryFiles, {FALSE})
    \/ InitAgain

InitWith(pool, tables) == InitFiles(AdminFiles(pool), CountryFiles(tables))

\* two lines no filter keeps: one without a designation code, one of a
\* populated place that is not for display
NoCodeLine  == Line(1, "", "", "10", "20", "N", "1", "eng", "FR", "Ain", "")
PlaceLine   == Line(2, "PPL", "", "10", "20", "N", "1", "eng", "FR", "Bas", "")

\* a line every filter keeps, without a country code
NoCountryCodeLine == Line(2, "ADM1", "Y", "10", "20", "N", "1", "eng", "", "Bas", "")

\* a line without a display flag, the only one with a generic term
UnflaggedLine == Line(1, "ADM1", "", "10", "20", "N", "1", "eng", "FR", "Ain", "Province")

\* lines that differ in what the three filters look at
FilterPool ==
    {Line(1, "ADM1", display, coord[1], coord[2], "N", "1", "eng", "FR", "Ain", "")
        : display \in {"Y", "1,2", ""},
          coord \in {<<"10", "20">>, <<"", "20">>, <<"10", "abc">>}}
    \cup {Line(2, "ADM1", display, "10", long_dd, "N", "1", "eng", "FR", "Bas", "")
        : display \in {"Y", "1,2", ""}, long_dd \in {"20", "abc"}}
    \cup {Line(ufi, "ADM1H", "Y", "10", "20", "N", "1", "eng", "FR", "Ain", "")
        : ufi \in {1, 2}}
    \cup {Line(2, desig_cd, "Y", "10", "20", "N", "1", "eng", "FR", "Bas", "")
        : desig_cd \in {"PPL", ""}}
    \cup {NoCodeLine, PlaceLine, NoCountryCodeLine, UnflaggedLine}

\* lines every filter keeps, which differ in what the selection looks at
DedupPool ==
    {Line(1, "ADM1", "Y", "10", "20", nt, name_rank, lang_cd, "FR", "Ain", "")
        : nt \in {"N", "V", ""},
          name_rank \in {"1", "5", ""},
          lang_cd \in {"eng", "fra"}}
    \cup {Line(1, "ADM1", "Y", "10", "20", "N", "1", "", "FR", "Ain", "")}
    \cup {Line(2, "ADM1", "Y", "10", "20", "N", "1", "eng", "FR", "Bas", ""),
          Line(2, "ADM1", "Y", "10", "20", "V", "5", "fra", "FR", "Bas", ""),
          Line(2, "ADM1", "Y", "10", "20", "", "", "", "FR", "Bas", "")}
    \cup {NoCodeLine, PlaceLine, NoCountryCodeLine}

\* lines every filter keeps, which differ in country, level and name
EnrichPool ==
    {Line(1, "ADM1", "Y", "10", "20", "N", "1", "eng", cc_ft, "Ain", "")
        : cc_ft \in {"FR", "CD", "ZZ"}}
    \cup {Line(1, desig_cd, "Y", "10", "20", "N", "1", "eng", "FR", "Ain", "")
        : desig_cd \in {"ADM2", "ADM1H"}}
    \cup {Line(2, "ADM1", "Y", "10", "20", "N", "1", "eng", cc_ft, "Bas", "")
        : cc_ft \in {"FR", "CD", ""}}
    \cup {Line(1, "ADM1", "Y", "10", "20", "N", "1", "eng", "FR", "Bas", ""),
          Line(2, "ADM2", "Y", "10", "20", "N", "1", "eng", "FR", "Ain", "")}
    \cup {NoCodeLine, PlaceLine}

\* a second line of the reference with the code of France
FrenchRepublic ==
    [Country_Code |-> "FR", Short_Name |-> "France", Full_Name |-> "Republic of France"]

Init == InitWith(FilterPool, {<<France>>})

Spec == Init /\ [][Next]_vars

InitDedup == InitWith(DedupPool, {<<France>>})

SpecDedup == InitDedup /\ [][Next]_vars

\* lines every filter keeps, of three country codes
SplitPool ==
    {Line(ufi, "ADM1", "Y", "10", "20", "N", "1", "eng", cc_ft, "Ain", "")
        : ufi \in {1, 2}, cc_ft \in {"CD", "TD", "ZZ"}}
    \cup {NoCodeLine, PlaceLine, NoCountryCodeLine}

\* a line of the reference whose short name differs from that of Chad by a
\* full stop
ChadAbbreviated ==
    [Country_Code |-> "TD", Short_Name |-> "Chad.", Full_Name |-> "Rep. of Chad"]

InitSplit == InitWith(SplitPool, {<<Chad, ChadAbbreviated>>})

SpecSplit == InitSplit /\ [][Next]_vars

\* lines every filter keeps, which differ in name_rank only
RankPool ==
    {Line(1, "ADM1", "Y", "10", "20", "N", name_rank, "eng", "FR", "Ain", "")
        : name_rank \in {"1", "999", "1000", ""}}
    \cup {NoCodeLine, PlaceLine, NoCountryCodeLine}

InitRank == InitWith(RankPool, {<<France>>})

SpecRank == InitRank /\ [][Next]_vars

\* the codes of one country more than the top view holds
TopCodes ==
    <<"AA", "AB", "AC", "AD", "AF", "AH", "AL", "AM", "AP", "AR", "AT", "AY",
     "AZ", "BA", "BB", "BC", "BD", "BF", "BH", "BL", "BM", "BP", "BR", "BT",
     "BY", "BZ", "CA", "CB", "CC", "CF", "CH">>

TopReference ==
    [k \in 1..Len(TopCodes) |->
        [Country_Code |-> TopCodes[k], Short_Name |-> TopCodes[k],
         Full_Name |-> TopCodes[k]]]

\* a file in which the k-th of these countries has k divisions, so that no
\* two countries have the same number of them
TopLines ==
    LET n == Len(TopCodes)
        CountryOf(i) ==
            CHOOSE k \in 1..n : ((k - 1) * k) \div 2 < i /\ i <= (k * (k + 1)) \div 2
    IN  [i \in 1..((n * (n + 1)) \div 2) |->
            Line(i, "ADM1", "Y", "10", "20", "N", "1", "eng",
                 TopCodes[CountryOf(i)], "Ain", "")]

InitTop ==
    InitFiles(AdminFiles(RankPool) \cup {File(Numbered(TopLines))},
              CountryFiles({<<France>>, TopReference}))

SpecTop == InitTop /\ [][Next]_vars

\* one division in each of two countries
TiePool ==
    {Line(1, "ADM1", "Y", "10", "20", "N", "1", "eng", "FR", "Ain", ""),
     Line(2, "ADM1", "Y", "10", "20", "N", "1", "eng", "CD", "Bas", "")}

InitEnrich == InitWith(EnrichPool, {<<>>, <<Chad, France>>, <<France, FrenchRepublic>>})

SpecEnrich == InitEnrich /\ [][Next]_vars

\* divisions of two countries and of a third that the reference lacks
TwicePool ==
    TiePool
    \cup {Line(1, "ADM2", "Y", "10", "20", "N", "1", "eng", "FR", "Ain", ""),
          Line(2, "ADM1", "Y", "10", "20", "N", "1", "eng", "ZZ", "Bas", "")}
    \cup {NoCodeLine, PlaceLine, NoCountryCodeLine}

\* two runs of the script on the same files
InitTwice ==
    InitRun(AdminFiles(TwicePool) \cup FilesWithoutDisplay,
            CountryFiles({<<Chad, France>>}), {TRUE})

SpecTwice == InitTwice /\ [][Next]_vars

-----------------------------------------------------------------------------
(* What the claims speak of *)

\* the output frame has been built
OutputReady == pc = "open_writer" \/ xlsx.exists

Rows(df) == {df[i] : i \in 1..Len(df)}

\* the input record a name id belongs to
RecordOf(uni) == CHOOSE r \in Rows(admin_df) : r.uni = uni

\* the records that passed the filters (admin_filtered is final once the
\* output frame exists)
Survivors == Rows(admin_filtered)

\* the scores of section 4.1 step 4 of the specification
TypeScore(nt) ==
    IF nt = "N" THEN 1 ELSE IF nt = "C" THEN 2 ELSE IF nt = "D" THEN 3
    ELSE IF nt = "V" THEN 4 ELSE 999

RankScore(name_rank) ==
    IF name_rank \in DOMAIN NumericValue THEN NumericValue[name_rank] ELSE 999

LanguageScore(policy, lang_cd) ==
    IF lang_cd = "eng" THEN 1
    ELSE IF policy = "full" /\ lang_cd \in common_local_langs THEN 2
    ELSE IF policy = "full" THEN 3 ELSE 2

Scores(policy, r) ==
    <<TypeScore(r.nt), RankScore(r.name_rank), LanguageScore(policy, r.lang_cd)>>

LexLess(a, b) ==
    \/ a[1] < b[1]
    \/ a[1] = b[1] /\ a[2] < b[2]
    \/ a[1] = b[1] /\ a[2] = b[2] /\ a[3] < b[3]

\* the three filters of section 4.1 of the specification
PassesLevel(r) ==
    /\ r.desig_cd # NaN
    /\ \E p \in {"ADM1", "ADM2", "ADM3", "ADM4", "ADMD"} :
          StartsWith(Chars(r.desig_cd), Chars(p))

\* the display flag of a record, missing when the file has no display column
DisplayFlag(r) == IF "display" \in DOMAIN r THEN r.display ELSE NaN

PassesDisplay(r) == DisplayFlag(r) # NaN /\ DisplayFlag(r) # ""

PassesCoordinates(r) ==
    r.lat_dd \in DOMAIN NumericValue /\ r.long_dd \in DOMAIN NumericValue

PassesFilters(r) == PassesLevel(r) /\ PassesDisplay(r) /\ PassesCoordinates(r)

-----------------------------------------------------------------------------
(* C1..C10 *)

\* C1: the enriched output holds no two rows with the same feature id, for
\* every file of records and every country reference table.
C1_UniqueFeatureIds ==
    \A i, j \in 1..Len(output_df) :
        output_df[i].Unique_Feature_ID = output_df[j].Unique_Feature_ID => i = j

\* C2: every output row is a copy of one surviving record of its feature:
\* name id, name type, name rank, language, name and generic term all come
\* from the same record.
C2_RowIsOneRecord ==
    \A i \in 1..Len(output_df) :
        \E r \in Survivors :
            /\ r.ufi = output_df[i].Unique_Feature_ID
            /\ r.uni = output_df[i].Unique_Name_ID
            /\ r.nt = output_df[i].Name_Type
            /\ r.name_rank = output_df[i].Name_Rank
            /\ r.lang_cd = output_df[i].Language_Code
            /\ r.full_name = output_df[i].Administrative_Name
            /\ r.generic = output_df[i].Generic_Term

\* C3: the record an output row names by its name id is a surviving record of
\* the row's feature, and no surviving record of that feature has a smaller
\* (type_score, rank_score, language_score), compared lexicographically.
C3_SmallestScoresWin ==
    \A i \in 1..Len(output_df) :
        LET w == RecordOf(output_df[i].Unique_Name_ID)
        IN  /\ w.ufi = output_df[i].Unique_Feature_ID
            /\ \E r \in Survivors : r.uni = w.uni
            /\ \A r \in Survivors :
                  r.ufi = w.ufi => ~LexLess(Scores(script, r), Scores(script, w))

\* an Approved record of rank 5 in French was chosen over a Variant of rank 1
\* in English
C3_Witness ==
    \E i \in 1..Len(output_df) :
        LET w == RecordOf(output_df[i].Unique_Name_ID)
        IN  /\ w.nt = "N" /\ w.name_rank = "5" /\ w.lang_cd = "fra"
            /\ \E r \in Survivors :
                  /\ r.ufi = w.ufi
                  /\ r.nt = "V" /\ r.name_rank = "1" /\ r.lang_cd = "eng"

\* C4: the feature ids of the output are those of the input records that pass
\* the level, display and coordinate filters.
C4_FeaturesOfSurvivors ==
    OutputReady =>
        {output_df[i].Unique_Feature_ID : i \in 1..Len(output_df)}
            = {r.ufi : r \in {x \in Rows(admin_df) : PassesFilters(x)}}

\* the display filter has just been applied
AfterDisplayFilter ==
    \/ script = "simple" /\ pc = "coord_filter"
    \/ script = "full" /\ pc = "score"

\* C5: in both scripts the display stage keeps every record whose display
\* flag is present and not empty, whatever its value, and drops the others.
C5_AnyDisplayValuePasses ==
    AfterDisplayFilter =>
        \A r \in Rows(admin_df) :
            PassesLevel(r) =>
                ((DisplayFlag(r) # NaN /\ DisplayFlag(r) # "")
                    <=> \E k \in 1..Len(admin_filtered) : admin_filtered[k].uni = r.uni)

\* the sheets that list divisions, among those written so far and those saved
DivisionSheets ==
    {sh \in Rows(writer) \cup Rows(xlsx.sheets) :
        sh.name \notin {"Country_Summary", "Top_30_Countries"}}

\* the sheets that count them
SummarySheets ==
    {sh \in Rows(writer) \cup Rows(xlsx.sheets) :
        sh.name \in {"Country_Summary", "Top_30_Countries"}}

\* the ADM1 records whose display flag is empty or absent
Undisplayed == {r \in Rows(admin_df) : r.desig_cd = "ADM1" /\ DisplayFlag(r) = NaN}

\* the records of a feature that could lend the row of the feature a value
Displayed(ufi) == {r \in Rows(admin_df) \ Undisplayed : r.ufi = ufi}

\* the columns of a sheet of divisions that hold a text of a record as read
RecordColumns ==
    {"Administrative_Level", "Administrative_Name", "Name_Type", "Name_Rank",
     "Language_Code", "Generic_Term"}

\* C6: an ADM1 record whose display flag is empty or absent is a row of no
\* sheet of divisions; every value such a sheet holds in a column taken from
\* the records is the value of a record of the row's feature that has a
\* display flag; and the total of a line of the country summary is at most
\* the number of features that have a record of its country code with a
\* display flag.
C6_UndisplayedContributesNothing ==
    /\ \A r \in Undisplayed : \A sh \in DivisionSheets : \A row \in Rows(sh.rows) :
          row.Unique_Name_ID # r.uni
    /\ \A sh \in DivisionSheets : \A row \in Rows(sh.rows) : \A c \in RecordColumns :
          row[c] # NaN =>
              \E r \in Displayed(row.Unique_Feature_ID) : r[SourceColumn(c)] = row[c]
    /\ \A sh \in SummarySheets : \A line \in Rows(sh.rows) :
          line.Total <= Cardinality({r.ufi : r \in {x \in Rows(admin_df) \ Undisplayed :
                                                      x.cc_ft = line.Country_Code}})

OutputFeatures == {output_df[i].Unique_Feature_ID : i \in 1..Len(output_df)}

\* C7: every output row has a latitude and a longitude that are numbers, the
\* record it names has coordinates that parse, the records grouped all have
\* such coordinates, and a feature none of whose records has them is absent.
C7_ValidCoordinates ==
    /\ \A i \in 1..Len(output_df) :
          /\ output_df[i].latitude # <<>>
          /\ output_df[i].longitude # <<>>
          /\ PassesCoordinates(RecordOf(output_df[i].Unique_Name_ID))
    /\ pc = "dedupe" => \A r \in Rows(admin_filtered) : PassesCoordinates(r)
    /\ OutputReady =>
          \A r \in Rows(admin_df) :
              (\A x \in Rows(admin_df) : x.ufi = r.ufi => ~PassesCoordinates(x))
                  => r.ufi \notin OutputFeatures

\* a feature whose only record is a displayed ADM1 division with a longitude
\* that does not parse is absent from a non-empty output
C7_Witness ==
    /\ OutputReady
    /\ output_df # <<>>
    /\ \E r \in Rows(admin_df) :
          /\ r.desig_cd = "ADM1" /\ DisplayFlag(r) = "Y"
          /\ r.lat_dd = "10" /\ r.long_dd = "abc"
          /\ r.ufi \notin OutputFeatures

\* C8: every output row has a designation code that begins with one of the
\* five prefixes, and the level filter raises no error on records with a
\* missing or other code.
C8_AdministrativeLevelsOnly ==
    /\ \A i \in 1..Len(output_df) :
          \E p \in {"ADM1", "ADM2", "ADM3", "ADM4", "ADMD"} :
              StartsWith(Chars(output_df[i].Administrative_Level), Chars(p))
    /\ error # <<>> => error[2] # "level_filter"

ReferenceCodes == {countries_df[k].Country_Code : k \in 1..Len(countries_df)}

\* the saved workbook has a sheet of this name with a row of the feature that
\* has no country names
InSheetWithoutCountry(name, ufi) ==
    \E sh \in Rows(xlsx.sheets) :
        /\ sh.name = name
        /\ \E row \in Rows(sh.rows) :
              /\ row.Unique_Feature_ID = ufi
              /\ row.Country_Name = NaN
              /\ row.Country_Full_Name = NaN

\* the sheets a division of this designation code belongs to: that of the
\* prefix the code begins with, or one named after the code itself
LevelViewsOf(code) ==
    {LevelSheetName(l) : l \in {p \in AdmPrefixes \cup {code} :
                                    StartsWith(Chars(code), Chars(p))}}

\* C9: a winning record whose country code is not in the reference is a row
\* of All_Admin_Divisions and of a sheet of its level, without country
\* names, and the run succeeds.
C9_UnresolvedCountryKept ==
    pc = "exit" =>
        \A w \in Rows(admin_deduplicated) :
            w.cc_ft \notin ReferenceCodes =>
                /\ retval = output_file
                /\ exit_code = <<0>>
                /\ InSheetWithoutCountry("All_Admin_Divisions", w.ufi)
                /\ \E name \in LevelViewsOf(w.desig_cd) :
                      InSheetWithoutCountry(name, w.ufi)

\* C10: the country code of every output row is the cc_ft of the record the
\* row names.
C10_CountryCodeCarried ==
    \A i \in 1..Len(output_df) :
        output_df[i].Country_Code = RecordOf(output_df[i].Unique_Name_ID).cc_ft

-----------------------------------------------------------------------------
(* C11..C20 *)

\* the steps up to the last filter of either script
FilterSteps ==
    {"read_countries", "read_admin", "level_filter", "display_filter", "score",
     "coord_filter"}

\* both inputs were read and the filters ran without an error
FiltersRan ==
    /\ Country_Codes_csv.exists
    /\ Administrative_Regions_txt.exists
    /\ error # <<>> => error[2] \notin FilterSteps

\* C11: when the filters leave no record, the run ends with the workbook
\* saved, its views empty, the file name returned and exit status 0.
C11_EmptyResultSucceeds ==
    (/\ pc = "exit"
     /\ FiltersRan
     /\ \A r \in Rows(admin_df) : ~PassesFilters(r))
        => /\ retval = output_file
           /\ exit_code = <<0>>
           /\ xlsx.exists
           /\ \E sh \in Rows(xlsx.sheets) : sh.name = "All_Admin_Divisions"
           /\ \A sh \in Rows(xlsx.sheets) : sh.rows = <<>>

MissingInput == ~Country_Codes_csv.exists \/ ~Administrative_Regions_txt.exists

\* C12: when Country_Codes.csv or Administrative_Regions.txt is absent the
\* run never gets past the reads, no workbook is opened or written at any
\* point, the function returns None and the process exits with status 1.
C12_MissingInputFails ==
    MissingInput =>
        /\ pc \in {"read_countries", "read_admin", "main", "exit"}
        /\ ~xlsx.exists /\ xlsx.sheets = <<>> /\ writer = <<>>
        /\ pc \in {"main", "exit"} =>
              retval = None /\ error = <<"FileNotFoundError", IF Country_Codes_csv.exists
                                                             THEN "read_admin"
                                                             ELSE "read_countries">>
        /\ pc = "exit" => exit_code = <<1>>

\* the country reference was read, the records were not found, and the
\* process has exited
C12_Witness ==
    /\ pc = "exit"
    /\ Country_Codes_csv.exists /\ countries_df # <<>>
    /\ ~Administrative_Regions_txt.exists
    /\ exit_code = <<1>>

\* the function has returned None: the run is on the failure path
RunFailed == pc \in {"main", "exit"} /\ retval = None

\* C13: a run that ends on the failure path leaves no workbook behind,
\* neither one holding part of the views nor one holding all of them.
C13_NoArtifactOfFailedRun == RunFailed => ~xlsx.exists

\* the text of a cell of the report: an empty cell is the empty string
Text(cell) == IF cell = NaN THEN <<>> ELSE Chars(cell)

\* (country display name, administrative level code, division name)
ViewKey(row) ==
    <<Text(row.Country_Name), Text(row.Administrative_Level),
      Text(row.Administrative_Name)>>

\* the three-key comparator: lexicographic on the three texts
ViewKeyLeq(a, b) ==
    \/ CharsLess(a[1], b[1])
    \/ a[1] = b[1] /\ CharsLess(a[2], b[2])
    \/ a[1] = b[1] /\ a[2] = b[2] /\ ~CharsLess(b[3], a[3])

\* the sheets of this name, written so far or saved
SheetsNamed(name) ==
    {sh \in Rows(writer) \cup Rows(xlsx.sheets) : sh.name = name}

\* C14: in All_Admin_Divisions the key (country name, level, division name)
\* of every row is less than or equal to that of the next row, rows with an
\* empty country name included.
C14_PrimaryViewSorted ==
    \A sh \in SheetsNamed("All_Admin_Divisions") :
        \A i \in 1..(Len(sh.rows) - 1) :
            ViewKeyLeq(ViewKey(sh.rows[i]), ViewKey(sh.rows[i + 1]))

\* a cell is at most another when the other is empty, or both have a text
\* and the first text is not after the second
CellLeqEmptyLast(a, b) ==
    IF b = NaN THEN TRUE
    ELSE IF a = NaN THEN FALSE
    ELSE ~CharsLess(Chars(b), Chars(a))

RowLeqEmptyLast(r1, r2) ==
    LET a == PrimaryKey(r1)
        b == PrimaryKey(r2)
    IN  \/ a[1] # b[1] /\ CellLeqEmptyLast(a[1], b[1])
        \/ a[1] = b[1] /\ a[2] # b[2] /\ CellLeqEmptyLast(a[2], b[2])
        \/ a[1] = b[1] /\ a[2] = b[2] /\ CellLeqEmptyLast(a[3], b[3])

\* C14, as the code has it: in All_Admin_Divisions the key (country name,
\* level, division name) of every row is less than or equal to that of the
\* next row, an empty cell counting as greater than every text: the rows with
\* an empty country name are the last ones.
C14_PrimaryViewSortedEmptyLast ==
    \A sh \in SheetsNamed("All_Admin_Divisions") :
        \A i \in 1..(Len(sh.rows) - 1) : RowLeqEmptyLast(sh.rows[i], sh.rows[i + 1])

\* the saved primary view has a row of a known country and after it a row
\* with an empty country name whose record came first in the file
C14_Witness ==
    \E sh \in Rows(xlsx.sheets) :
        /\ sh.name = "All_Admin_Divisions"
        /\ \E i \in 1..(Len(sh.rows) - 1) :
              /\ sh.rows[i].Country_Name # NaN
              /\ sh.rows[i + 1].Country_Name = NaN
              /\ sh.rows[i + 1].Unique_Name_ID < sh.rows[i].Unique_Name_ID

\* the rows of the saved primary view
PrimaryView ==
    LET named == {sh \in Rows(xlsx.sheets) : sh.name = "All_Admin_Divisions"}
    IN  IF named = {} THEN <<>> ELSE (CHOOSE sh \in named : TRUE).rows

\* the saved level views
LevelViews ==
    {sh \in Rows(xlsx.sheets) :
        sh.name \notin {"All_Admin_Divisions", "Country_Summary", "Top_30_Countries"}}

\* C15: in the saved workbook every row of All_Admin_Divisions is in exactly
\* one level view, also a row whose code only begins with one of the five
\* prefixes; every level view holds the rows of one designation code in the
\* order of the primary view, and every code present has one view.
C15_LevelViewsPartition ==
    xlsx.sheets # <<>> =>
        /\ \A i \in 1..Len(PrimaryView) :
              Cardinality({sh \in LevelViews : PrimaryView[i] \in Rows(sh.rows)}) = 1
        /\ \A sh \in LevelViews :
              /\ sh.rows # <<>>
              /\ sh.rows = SelectSeq(PrimaryView, LAMBDA r :
                     r.Administrative_Level = sh.rows[1].Administrative_Level)
        /\ \A i \in 1..Len(PrimaryView) :
              Cardinality({sh \in LevelViews :
                  sh.rows[1].Administrative_Level
                      = PrimaryView[i].Administrative_Level}) = 1

\* the summary has been computed
SummaryWritten == pc \in {"write_top", "close_writer", "report"}

\* the output rows of a country line of the summary
DivisionsOf(line) ==
    {i \in 1..Len(output_df) :
        /\ output_df[i].Country_Code = line.Country_Code
        /\ output_df[i].Country_Name = line.Country_Name}

\* C16: in every country row of the summary the Total is the sum of the
\* row's level columns, every level cell is the number of output rows of
\* that country with that designation code, 0 when there is none, and every
\* code of the country has a column.
C16_PivotCounts ==
    SummaryWritten =>
        \A line \in Rows(country_pivot) :
            /\ line.Total = Sum(line.counts, DOMAIN line.counts)
            /\ line.Total = Cardinality(DivisionsOf(line))
            /\ \A l \in DOMAIN line.counts :
                  line.counts[l] = Cardinality({i \in DivisionsOf(line) :
                                       output_df[i].Administrative_Level = l})
            /\ \A i \in DivisionsOf(line) :
                  output_df[i].Administrative_Level \in DOMAIN line.counts

\* a country row with one division of a level and none of another level
C16_Witness ==
    /\ SummaryWritten
    /\ \E line \in Rows(country_pivot) : \E l, m \in DOMAIN line.counts :
          line.counts[l] = 1 /\ line.counts[m] = 0 /\ line.Total = 1

\* C17: the rows of Country_Summary are in the order of Total descending, and
\* two rows of equal Total are in the order of their country codes ascending.
C17_SummaryOrder ==
    \A sh \in SheetsNamed("Country_Summary") :
        \A i, j \in 1..Len(sh.rows) :
            i < j =>
                /\ sh.rows[i].Total >= sh.rows[j].Total
                /\ sh.rows[i].Total = sh.rows[j].Total =>
                      ~CharsLess(Chars(sh.rows[j].Country_Code),
                                 Chars(sh.rows[i].Country_Code))

CountryNames ==
    {PrimaryView[i].Country_Name : i \in 1..Len(PrimaryView)} \ {NaN}

RowsOfCountry(name) == SelectSeq(PrimaryView, LAMBDA r : r.Country_Name = name)

\* C19: when the split has finished there is one export per country name of
\* the primary view, every export holds exactly the rows of one country,
\* every country has its export, and every row of the primary view is in
\* some export.
C19_OneExportPerCountry ==
    (split_pc = "exit" /\ split_exit_code = <<0>>) =>
        /\ Cardinality(Country_Exports) = Cardinality(CountryNames)
        /\ \A name \in CountryNames :
              \E f \in Country_Exports : f.rows = RowsOfCountry(name)
        /\ \A f \in Country_Exports :
              \E name \in CountryNames : f.rows = RowsOfCountry(name)
        /\ \A i \in 1..Len(PrimaryView) :
              \E f \in Country_Exports : PrimaryView[i] \in Rows(f.rows)

\* the name of a column of the right frame in a merge whose left frame has
\* a column of that name already: suffixes=('', '_country')
Suffixed(c) ==
    CASE c = "Country_Code" -> "Country_Code_country"
      [] c = "Short_Name"   -> "Short_Name_country"
      [] c = "Full_Name"    -> "Full_Name_country"

\* the merge of lines 111-117 applied to a frame that has the country
\* columns already: the left columns keep their names and values, the right
\* ones come in under the suffixed names, one row per matching line of the
\* reference
MergeAgainRow(row, countries) ==
    LET matches == SelectSeq(countries, LAMBDA k : k.Country_Code = row.cc_ft)
        With(country) ==
            [c \in DOMAIN row \cup {Suffixed(k) : k \in CountryColumns} |->
                IF c \in DOMAIN row THEN row[c]
                ELSE country[CHOOSE k \in CountryColumns : Suffixed(k) = c]]
    IN  IF matches = <<>> THEN <<With(NoCountry)>>
        ELSE [m \in 1..Len(matches) |-> With(matches[m])]

RECURSIVE MergeAgain(_, _)
MergeAgain(df, countries) ==
    IF df = <<>> THEN <<>>
    ELSE MergeAgainRow(Head(df), countries) \o MergeAgain(Tail(df), countries)

\* C20: joining the enriched frame again against the same country reference
\* gives as many rows as it had, each with the country code, short name and
\* full name it had.
C20_EnrichmentIdempotent ==
    pc = "output" =>
        LET again == MergeAgain(admin_coords, countries_df)
        IN  /\ Len(again) = Len(admin_coords)
            /\ \A i \in 1..Len(admin_coords) : \A c \in CountryColumns :
                  again[i][c] = admin_coords[i][c]

-----------------------------------------------------------------------------
(* C21..C24 *)

\* the surviving records of the feature of w whose scores are those of w
TiedWith(w) ==
    {r \in Survivors : r.ufi = w.ufi /\ Scores(script, r) = Scores(script, w)}

\* C21: of the surviving records of a feature that share the smallest scores,
\* the one the output row names by its name id is the first in input order.
C21_FirstOfTiedWins ==
    \A i \in 1..Len(output_df) :
        LET w == RecordOf(output_df[i].Unique_Name_ID)
        IN  \A r \in TiedWith(w) : w.uni <= r.uni

\* a record was chosen over a later record of the same feature and the same
\* scores that is in another language
C21_Witness ==
    \E i \in 1..Len(output_df) :
        LET w == RecordOf(output_df[i].Unique_Name_ID)
        IN  \E r \in TiedWith(w) : r.uni > w.uni /\ r.lang_cd # w.lang_cd

\* C22: a record without a name_rank is not the one an output row names when
\* a surviving record of the same feature and the same type score has a
\* name_rank that is a number, whatever the number.
C22_MissingRankNeverWins ==
    \A i \in 1..Len(output_df) :
        LET w == RecordOf(output_df[i].Unique_Name_ID)
        IN  w.name_rank \notin DOMAIN NumericValue =>
                \A r \in Survivors :
                    (r.ufi = w.ufi /\ TypeScore(r.nt) = TypeScore(w.nt))
                        => r.name_rank \notin DOMAIN NumericValue

\* C23: Top_30_Countries holds the first min(30, number of rows) rows of
\* Country_Summary, in the same order and with the same values.
C23_TopIsPrefix ==
    \A top \in SheetsNamed("Top_30_Countries") :
        \E summary \in SheetsNamed("Country_Summary") :
            LET n == IF Len(summary.rows) < TopN THEN Len(summary.rows) ELSE TopN
            IN  /\ Len(top.rows) = n
                /\ \A i \in 1..n : top.rows[i] = summary.rows[i]

\* a saved summary of more countries than the top view holds, the top view
\* ending with a country of two divisions
C23_Witness ==
    \E top \in Rows(xlsx.sheets) : \E summary \in Rows(xlsx.sheets) :
        /\ top.name = "Top_30_Countries"
        /\ summary.name = "Country_Summary"
        /\ Len(summary.rows) > TopN
        /\ Len(top.rows) = TopN
        /\ top.rows[TopN].Total = 2

\* C24: in the saved workbook the Totals of the rows of Country_Summary add
\* up to the number of rows of All_Admin_Divisions, rows of an unresolved
\* country included.
C24_SummaryCountsEveryDivision ==
    \A summary \in Rows(xlsx.sheets) :
        summary.name = "Country_Summary" =>
            LET totals == [i \in 1..Len(summary.rows) |-> summary.rows[i].Total]
            IN  Sum(totals, DOMAIN totals) = Len(PrimaryView)

====
